---- MODULE Spec2Model ----
(***************************************************************************)
(* TronProtocol YAML build configurator (src/yaml-build-config.py) and     *)
(* direct-dependency vulnerability scan (src/scripts/check_direct_vulns.py).*)
(*                                                                         *)
(* Text is modelled as a sequence of tokens (a token is a piece of text    *)
(* that the code never looks inside, except ":" and " " which split /      *)
(* strip act on).  A file is a record holding its lines, its end-of-line   *)
(* bytes and whether its bytes decode as UTF-8.                            *)
(***************************************************************************)
EXTENDS Integers, Sequences, FiniteSets, TLC

VARIABLES
    args,           \* argparse namespace of main(): format, summary, generate, update, safe_update, force
    config_exists,  \* whether the -c file exists on disk
    doc,            \* the YAML document stored in the -c file
    yaml_format,    \* BuildConfigurator.yaml_format
    config,         \* BuildConfigurator.config (kind "unset" is Python's None before load_config)
    hasKt,          \* app/src/**/*.kt matches at least one file
    live,           \* file app/build.gradle
    backup,         \* file app/build.gradle.backup
    staged,         \* file app/build.gradle.generated
    pc,             \* position of the run inside main() / update_build_gradle()
    exit_code,      \* value returned by main() (-1 while running)
    error,          \* the exception caught by main(), if any
    log,            \* lines printed so far (tags)
    deps_result,    \* value or exception of the last get_dependencies() call
    live0,          \* history: app/build.gradle before the run
    backup0,        \* history: app/build.gradle.backup before the run
    staged0,        \* history: app/build.gradle.generated before the run
    \* check_direct_vulns.py
    direct_deps,    \* main(): sorted(collect_direct_dependencies(alias_map))
    dep_idx,        \* main(): position of `for dep in direct_deps` (0 before the loop)
    attempt,        \* main(): `for attempt in range(3)`
    osv_attempt,    \* osv_query(): `for attempt in range(1, OSV_RETRIES + 1)`
    vulns,          \* main(): vulns of the current dep
    critical_hits,  \* main(): critical_hits, as <<dep, id, summary>>
    last_exc,       \* main(): last_exc ("" is None)
    spc,            \* position of the scan inside main()
    status,         \* exit status of the scan process (-1 while running)
    uncaught,       \* the exception that left main(), "" if none
    out,            \* lines printed by the scan (tags)
    queries,        \* history: urlopen calls made, per coordinate
    failures,       \* history: urlopen calls that raised, per coordinate
    returned        \* history: advisories returned, as <<position of the dep, advisory>>

\* the state of the configurator run and the state of the scan
configurator == <<args, config_exists, doc, yaml_format, config, hasKt, live, backup, staged,
                  pc, exit_code, error, log, deps_result, live0, backup0, staged0>>
scanner == <<direct_deps, dep_idx, attempt, osv_attempt, vulns, critical_hits, last_exc,
             spc, status, uncaught, out, queries, failures, returned>>

vars == <<configurator, scanner>>

\* the scan is not running
ScannerIdle ==
    /\ direct_deps = <<>>
    /\ dep_idx = 0 /\ attempt = 0 /\ osv_attempt = 0
    /\ vulns = <<>> /\ critical_hits = <<>> /\ last_exc = ""
    /\ spc = "idle" /\ status = -1 /\ uncaught = ""
    /\ out = <<>>
    /\ queries = <<>> /\ failures = <<>> /\ returned = {}

-----------------------------------------------------------------------------
(* Bounds of the model *)

\* longest dependency entry (in tokens) drawn as the probed entry
MaxEntryLen == 5
\* longest declared list of one dialect-B library group
MaxGroupLen == 2

-----------------------------------------------------------------------------
(* Text helpers: str.split(':'), str.strip(), `in`, concatenation *)

Tokens == {"material", "1", ":", " "}

\* s.split(sep): scan left to right, cutting at every separator token
RECURSIVE SplitFrom(_, _, _)
SplitFrom(s, sep, cur) ==
    IF s = <<>> THEN <<cur>>
    ELSE IF Head(s) = sep THEN <<cur>> \o SplitFrom(Tail(s), sep, <<>>)
    ELSE SplitFrom(Tail(s), sep, Append(cur, Head(s)))

Split(s, sep) == SplitFrom(s, sep, <<>>)

RECURSIVE LStrip(_)
LStrip(s) == IF s # <<>> /\ Head(s) = " " THEN LStrip(Tail(s)) ELSE s

RECURSIVE RStrip(_)
RStrip(s) == IF s # <<>> /\ s[Len(s)] = " " THEN RStrip(SubSeq(s, 1, Len(s) - 1)) ELSE s

\* s.strip()
Strip(s) == RStrip(LStrip(s))

\* `needle in hay` for token sequences
Contains(hay, needle) ==
    \E i \in 1..(Len(hay) + 1) :
        /\ i + Len(needle) - 1 <= Len(hay)
        /\ SubSeq(hay, i, i + Len(needle) - 1) = needle

\* A YAML scalar or node used as a list entry: Python type name and its text
Str(s) == [type |-> "str", val |-> s]
NonStrings == { [type |-> "int", val |-> <<"1">>],
                [type |-> "NoneType", val |-> <<"None">>],
                [type |-> "dict", val |-> <<"{", "material", ":", " ", "1", "}">>] }

\* Exceptions and normal results of a call
Raise(kind, msg) == [ok |-> FALSE, kind |-> kind, msg |-> msg, val |-> <<>>]
Return(v) == [ok |-> TRUE, kind |-> "", msg |-> <<>>, val |-> v]
NoError == [kind |-> "", msg |-> <<>>, at |-> ""]

-----------------------------------------------------------------------------
(* Dependency extraction *)

\* BuildConfigurator._parse_name_version: returns <<name, version>>
parse_name_version(entry, source) ==
    IF entry.type # "str"
    THEN Raise("ValueError", <<"Malformed dependency in ", source, ": expected string, got ", entry.type>>)
    ELSE LET parts == Split(entry.val, ":") IN
         IF Len(parts) # 2
         THEN Raise("ValueError", <<"Malformed dependency in ", source, ": ", "'">> \o entry.val
                                   \o <<"'", " (expected 'name:version')">>)
         ELSE LET name == Strip(parts[1])
                  version == Strip(parts[2]) IN
              IF name = <<>> \/ version = <<>>
              THEN Raise("ValueError", <<"Malformed dependency in ", source, ": ", "'">> \o entry.val
                                        \o <<"'", " (name and version must be non-empty)">>)
              ELSE Return(<<name, version>>)

\* BuildConfigurator._validate_dependency_coordinate
validate_dependency_coordinate(dep) ==
    IF dep.type # "str"
    THEN Raise("ValueError", <<"Malformed dependency coordinate: expected string, got ", dep.type>>)
    ELSE LET parts == Split(dep.val, ":") IN
         IF Len(parts) # 3 \/ \E i \in 1..Len(parts) : Strip(parts[i]) = <<>>
         THEN Raise("ValueError", <<"Malformed dependency coordinate ", "'">> \o dep.val
                                   \o <<"'", " (expected 'group:artifact:version')">>)
         ELSE Return(dep.val)

\* special_cases of _convert_androidx_dependency: key -> "group:artifact"
special_cases == [k \in {<<"material">>} |-> <<"com.google.android.material", ":", "material">>]

ConvertAndroidxNoTable(artifact, version) ==
    <<"androidx.">> \o artifact \o <<":">> \o artifact \o <<":">> \o version

\* BuildConfigurator._convert_androidx_dependency
convert_androidx_dependency(artifact, version) ==
    IF artifact \in DOMAIN special_cases
    THEN special_cases[artifact] \o <<":">> \o version
    ELSE <<"androidx.">> \o artifact \o <<":">> \o artifact \o <<":">> \o version

-----------------------------------------------------------------------------
(* The YAML document: dict.get with a default, ordered mappings *)

EmptyMap == [k \in {} |-> ""]

\* m.get(k, d) on a mapping given as a function
Get(m, k, d) == IF k \in DOMAIN m THEN m[k] ELSE d

\* m.get(k, d) on a mapping given in document order as <<key, value>> pairs
RECURSIVE OGet(_, _, _)
OGet(m, k, d) ==
    IF m = <<>> THEN d
    ELSE IF Head(m)[1] = k THEN Head(m)[2] ELSE OGet(Tail(m), k, d)

\* config.get(k, d): top-level section k of the loaded document
Section(cfg, k, d) == IF k \in cfg.keys THEN cfg[k] ELSE d

\* fixed visiting order of get_dependencies for the grouped dialect
GroupOrder == <<"androidx", "google_services", "tensorflow">>

\* the three expansion rules of get_dependencies (lines 97, 102, 107)
Expand(group, artifact, version) ==
    CASE group = "androidx" -> convert_androidx_dependency(artifact, version)
      [] group = "google_services" -> <<"com.google.android.gms", ":">> \o artifact \o <<":">> \o version
      [] group = "tensorflow" -> <<"org.tensorflow", ":">> \o artifact \o <<":">> \o version

\* [self._validate_dependency_coordinate(dep) for dep in deps]: first failure raises
RECURSIVE ValidateAll(_)
ValidateAll(deps) ==
    IF deps = <<>> THEN Return(<<>>)
    ELSE LET r == validate_dependency_coordinate(Head(deps)) IN
         IF ~r.ok THEN r
         ELSE LET rest == ValidateAll(Tail(deps)) IN
              IF ~rest.ok THEN rest ELSE Return(<<r.val>> \o rest.val)

\* one `for dep in libraries.get(group, [])` loop: first failure raises
RECURSIVE ResolveGroup(_, _)
ResolveGroup(entries, group) ==
    IF entries = <<>> THEN Return(<<>>)
    ELSE LET r == parse_name_version(Head(entries), "libraries." \o group) IN
         IF ~r.ok THEN r
         ELSE LET rest == ResolveGroup(Tail(entries), group) IN
              IF ~rest.ok THEN rest
              ELSE Return(<<Expand(group, r.val[1], r.val[2])>> \o rest.val)

\* the loops of get_dependencies run one after the other over `order`
RECURSIVE ResolveGroups(_, _)
ResolveGroups(libraries, order) ==
    IF order = <<>> THEN Return(<<>>)
    ELSE LET r == ResolveGroup(OGet(libraries, Head(order), <<>>), Head(order)) IN
         IF ~r.ok THEN r
         ELSE LET rest == ResolveGroups(libraries, Tail(order)) IN
              IF ~rest.ok THEN rest ELSE Return(r.val \o rest.val)

\* keys of an ordered mapping, in document order
RECURSIVE OKeys(_)
OKeys(m) == IF m = <<>> THEN <<>> ELSE <<Head(m)[1]>> \o OKeys(Tail(m))

GetDependenciesMapOrder(fmt, cfg) ==
    IF fmt = "toolneuron"
    THEN ValidateAll(Section(cfg, "dependencies", <<>>))
    ELSE ResolveGroups(Section(cfg, "libraries", <<>>), OKeys(Section(cfg, "libraries", <<>>)))

\* BuildConfigurator.get_dependencies
get_dependencies(fmt, cfg) ==
    IF fmt = "toolneuron"
    THEN ValidateAll(Section(cfg, "dependencies", <<>>))
    ELSE ResolveGroups(Section(cfg, "libraries", <<>>), GroupOrder)

\* BuildConfigurator.get_app_config
get_app_config(fmt, cfg) ==
    IF fmt = "toolneuron"
    THEN [name |-> Get(Section(cfg, "app", EmptyMap), "name", "TronProtocol"),
          package |-> Get(Section(cfg, "app", EmptyMap), "package", "com.tronprotocol.app"),
          version_code |-> Get(Section(cfg, "version", EmptyMap), "code", "1"),
          version_name |-> Get(Section(cfg, "version", EmptyMap), "name", "1.0"),
          compile_sdk |-> Get(Section(cfg, "build", EmptyMap), "compile_sdk", "34"),
          min_sdk |-> Get(Section(cfg, "build", EmptyMap), "min_sdk", "24"),
          target_sdk |-> Get(Section(cfg, "build", EmptyMap), "target_sdk", "34")]
    ELSE [name |-> Get(Section(cfg, "project", EmptyMap), "name", "TronProtocol"),
          package |-> Get(Section(cfg, "project", EmptyMap), "id", "com.tronprotocol.app"),
          version_code |-> Get(Section(cfg, "versioning", EmptyMap), "version_code", "1"),
          version_name |-> Get(Section(cfg, "versioning", EmptyMap), "version_name", "1.0"),
          compile_sdk |-> Get(Section(cfg, "android", EmptyMap), "compileSdk", "34"),
          min_sdk |-> Get(Section(cfg, "android", EmptyMap), "minSdk", "24"),
          target_sdk |-> Get(Section(cfg, "android", EmptyMap), "targetSdk", "34")]

\* the build-type dict built per variant in get_build_types (lines 76-82)
VariantBuildType(variant) ==
    LET variant_name == variant.name
        variant_config == Get(variant, "config", EmptyMap) IN
    <<variant_name,
      [enabled |-> TRUE,
       debuggable |-> Get(variant_config, "debuggable", FALSE),
       minify_enabled |-> Get(variant_config, "minifyEnabled", FALSE),
       shrink_resources |-> Get(variant_config, "shrinkResources", FALSE),
       output_name |-> Get(Get(variant, "output", EmptyMap), "name", "TronProtocol-" \o variant_name)]>>

\* build_types[variant_name] = ...: a repeated name overwrites the value and
\* keeps the position of its first insertion
RECURSIVE OPut(_, _)
OPut(m, kv) ==
    IF m = <<>> THEN <<kv>>
    ELSE IF Head(m)[1] = kv[1] THEN <<kv>> \o Tail(m)
    ELSE <<Head(m)>> \o OPut(Tail(m), kv)

RECURSIVE VariantsToBuildTypes(_, _)
VariantsToBuildTypes(variants, acc) ==
    IF variants = <<>> THEN acc
    ELSE VariantsToBuildTypes(Tail(variants), OPut(acc, VariantBuildType(Head(variants))))

\* BuildConfigurator.get_build_types: ordered mapping name -> config
get_build_types(fmt, cfg) ==
    IF fmt = "toolneuron"
    THEN Section(cfg, "build_types", <<>>)
    ELSE VariantsToBuildTypes(Section(cfg, "variants", <<>>), <<>>)

-----------------------------------------------------------------------------
(* Files and text I/O *)

NoFile == [exists |-> FALSE, eol |-> "", lines |-> <<>>, utf8 |-> TRUE]

\* open(path, 'w').write(text) on the platform of the run: "\n" is written as is
WriteText(lines) == [exists |-> TRUE, eol |-> "\n", lines |-> lines, utf8 |-> TRUE]

\* universal-newlines decoding of Path.read_text(): "\r\n" and "\r" become "\n"
TranslateNewline(eol) == IF eol \in {"\r\n", "\r"} THEN "\n" ELSE eol

\* Path.read_text().splitlines(keepends=True): the decoded lines, each with its
\* line end; bytes that are not UTF-8 raise
read_text(f) ==
    IF ~f.utf8 THEN Raise("UnicodeDecodeError", <<"invalid start byte">>)
    ELSE Return([i \in 1..Len(f.lines) |-> <<f.lines[i], TranslateNewline(f.eol)>>])

\* difflib.unified_diff(a, b, ...) as a list: empty exactly when a = b; otherwise
\* the two header lines followed by the removed and the added lines
unified_diff(a, b) ==
    IF a = b THEN <<>>
    ELSE <<"--- app/build.gradle", "+++ app/build.gradle.generated">>
         \o [i \in 1..Len(a) |-> "-"] \o [i \in 1..Len(b) |-> "+"]

-----------------------------------------------------------------------------
(* Manifest generation *)

ConfigFileName == "build.yaml"
KotlinPluginId == "id 'org.jetbrains.kotlin.android'"

\* "... in content": the tokens of a line are the only places the text can occur
HasKotlinPluginText(text) ==
    \E i \in 1..Len(text) : \E j \in 1..Len(text[i][1]) : text[i][1][j] = KotlinPluginId

\* BuildConfigurator.should_include_kotlin_plugin
should_include_kotlin_plugin(kt, liveFile) ==
    IF kt THEN Return(TRUE)
    ELSE IF liveFile.exists
         THEN LET content == read_text(liveFile) IN
              IF ~content.ok THEN content
              ELSE Return(HasKotlinPluginText(content.val))
         ELSE Return(FALSE)

\* str(b).lower()
Lower(b) == IF b THEN "true" ELSE "false"

RECURSIVE ProguardList(_)
ProguardList(files) ==
    IF files = <<>> THEN <<>> ELSE <<", '", Head(files), "'">> \o ProguardList(Tail(files))

NoProguard == [type |-> "list", val |-> <<>>]
DefaultProguardLine ==
    <<"            proguardFiles getDefaultProguardFile('proguard-android-optimize.txt')">>

\* lines 219-230: the proguard directive of one build type
ProguardLines(build_type, cfg) ==
    LET files == Get(cfg, "proguard_files", NoProguard) IN
    IF files.val # <<>>
    THEN IF files.type = "list"
         THEN << DefaultProguardLine \o ProguardList(files.val) >>
         ELSE <<>>
    ELSE IF build_type = "release"
         THEN << DefaultProguardLine \o ProguardList(<<"proguard-rules.pro">>) >>
         ELSE <<>>

\* lines 211-232: the block of one build type
BuildTypeLines(build_type, cfg) ==
    IF Get(cfg, "enabled", TRUE)
    THEN << <<"        ", build_type, " {">>,
            <<"            debuggable ", Lower(Get(cfg, "debuggable", FALSE))>>,
            <<"            minifyEnabled ", Lower(Get(cfg, "minify_enabled", FALSE))>> >>
         \o (IF Get(cfg, "shrink_resources", FALSE)
             THEN << <<"            shrinkResources true">> >> ELSE <<>>)
         \o ProguardLines(build_type, cfg)
         \o << <<"        }">> >>
    ELSE <<>>

RECURSIVE AllBuildTypeLines(_)
AllBuildTypeLines(build_types) ==
    IF build_types = <<>> THEN <<>>
    ELSE BuildTypeLines(Head(build_types)[1], Head(build_types)[2])
         \o AllBuildTypeLines(Tail(build_types))

DefaultBuildTypes == << <<"release", [enabled |-> TRUE, minify_enabled |-> FALSE]>> >>

\* lines 255-256: one line per dependency
DependencyLines(dependencies) ==
    [i \in 1..Len(dependencies) |-> <<"    implementation '">> \o dependencies[i] \o <<"'">>]

\* lines 179-258: gradle_content, line by line
Render(app_config, build_types, dependencies, include_kotlin_plugin) ==
    << <<"// Auto-generated from ", ConfigFileName>>,
       <<"// Do not edit manually - changes will be overwritten">>,
       <<>>,
       <<"plugins {">>,
       <<"    ", "id 'com.android.application'">> >>
    \o (IF include_kotlin_plugin THEN << <<"    ", KotlinPluginId>> >> ELSE <<>>)
    \o << <<"}">>,
          <<>>,
          <<"android {">>,
          <<"    namespace '", app_config.package, "'">>,
          <<"    compileSdk ", app_config.compile_sdk>>,
          <<>>,
          <<"    defaultConfig {">>,
          <<"        applicationId \"", app_config.package, "\"">>,
          <<"        minSdk ", app_config.min_sdk>>,
          <<"        targetSdk ", app_config.target_sdk>>,
          <<"        versionCode ", app_config.version_code>>,
          <<"        versionName \"", app_config.version_name, "\"">>,
          <<"    }">>,
          <<>>,
          <<"    buildTypes {">> >>
    \o AllBuildTypeLines(IF build_types = <<>> THEN DefaultBuildTypes ELSE build_types)
    \o << <<"    }">>,
          <<>>,
          <<"    compileOptions {">>,
          <<"        sourceCompatibility JavaVersion.VERSION_1_8">>,
          <<"        targetCompatibility JavaVersion.VERSION_1_8">>,
          <<"    }">> >>
    \o (IF include_kotlin_plugin
        THEN << <<>>, <<"    kotlinOptions {">>, <<"        jvmTarget = '1.8'">>, <<"    }">> >>
        ELSE <<>>)
    \o << <<>>, <<>>, <<"dependencies {">> >>
    \o DependencyLines(dependencies)
    \o << <<"}">> >>

GenerateWriteFirst(fmt, cfg, kt, liveFile, tempFile) ==
    LET app_config == get_app_config(fmt, cfg)
        build_types == get_build_types(fmt, cfg)
        dependencies == get_dependencies(fmt, cfg) IN
    IF ~dependencies.ok
    THEN [dependencies EXCEPT !.val = WriteText(Render(app_config, build_types, <<>>, FALSE))]
    ELSE LET include_kotlin_plugin == should_include_kotlin_plugin(kt, liveFile) IN
         IF ~include_kotlin_plugin.ok
         THEN [include_kotlin_plugin EXCEPT !.val = tempFile]
         ELSE Return(WriteText(Render(app_config, build_types, dependencies.val,
                                      include_kotlin_plugin.val)))

\* BuildConfigurator.generate_gradle_config: returns normally or raises; val is
\* the file at app/build.gradle.generated when the call ends (tempFile is the
\* file that was there when it began: nothing is written before line 261)
generate_gradle_config(fmt, cfg, kt, liveFile, tempFile) ==
    LET app_config == get_app_config(fmt, cfg)
        build_types == get_build_types(fmt, cfg)
        dependencies == get_dependencies(fmt, cfg) IN
    IF ~dependencies.ok THEN [dependencies EXCEPT !.val = tempFile]
    ELSE LET include_kotlin_plugin == should_include_kotlin_plugin(kt, liveFile) IN
         IF ~include_kotlin_plugin.ok
         THEN [include_kotlin_plugin EXCEPT !.val = tempFile]
         ELSE Return(WriteText(Render(app_config, build_types, dependencies.val,
                                      include_kotlin_plugin.val)))

-----------------------------------------------------------------------------
(* One run of main(): load_config, then the selected actions in the fixed    *)
(* order summary, generate, update.  update_build_gradle is split at each    *)
(* statement that touches a file, since any of them can raise.               *)

DetectToolneuronFirstSwapped(d) ==
    IF {"project", "variants"} \subseteq d.keys THEN Return("cleverferret")
    ELSE IF {"app", "build"} \subseteq d.keys THEN Return("toolneuron")
    ELSE Raise("ValueError", <<"Unknown YAML format">>)

\* lines 34-39: the marker-key test of load_config
auto_detect(d) ==
    IF {"app", "build"} \subseteq d.keys THEN Return("toolneuron")
    ELSE IF {"project", "variants"} \subseteq d.keys THEN Return("cleverferret")
    ELSE Raise("ValueError", <<"Unknown YAML format">>)

\* BuildConfigurator.load_config: the exception raised, or the resulting yaml_format
load_config(exists, d, fmt) ==
    IF ~exists THEN Raise("FileNotFoundError", <<"Configuration file not found: ", ConfigFileName>>)
    ELSE IF fmt = "auto"
         THEN IF d.kind = "null"
              THEN Raise("TypeError", <<"argument of type 'NoneType' is not iterable">>)
              ELSE auto_detect(d)
         ELSE Return(fmt)

UnsetConfig == [kind |-> "unset", keys |-> {}]

\* main(), lines 423-425: print the error, return 1 (at: where it was raised)
Fail(r) ==
    /\ pc' = "done"
    /\ exit_code' = 1
    /\ error' = [kind |-> r.kind, msg |-> r.msg, at |-> pc]
    /\ log' = Append(log, "[ERROR]")

\* main(), lines 407-408
LoadConfig ==
    /\ pc = "load"
    /\ LET r == load_config(config_exists, doc, args.format) IN
       IF r.ok
       THEN /\ yaml_format' = r.val
            /\ config' = doc
            /\ log' = Append(log, "[INFO] Loaded configuration")
            /\ pc' = "summary"
            /\ UNCHANGED <<exit_code, error>>
       ELSE /\ Fail(r)
            \* self.config is assigned before the detection raises
            /\ config' = IF config_exists THEN doc ELSE config
            /\ UNCHANGED yaml_format
    /\ UNCHANGED scanner
    /\ UNCHANGED <<args, config_exists, doc, hasKt, live, backup, staged, deps_result,
                   live0, backup0, staged0>>

\* main(), lines 410-411
Summary ==
    /\ pc = "summary"
    /\ pc' = "generate"
    /\ log' = IF args.summary THEN Append(log, "summary") ELSE log
    /\ UNCHANGED scanner
    /\ UNCHANGED <<args, config_exists, doc, yaml_format, config, hasKt, live, backup, staged,
                   exit_code, error, deps_result, live0, backup0, staged0>>

\* the call generate_gradle_config() made at position `at`, continuing at `next`
CallGenerate(at, next) ==
    /\ pc = at
    /\ LET r == generate_gradle_config(yaml_format, config, hasKt, live, staged) IN
       /\ deps_result' = get_dependencies(yaml_format, config)
       /\ staged' = r.val
       /\ IF r.ok
          THEN /\ log' = Append(log, "[SUCCESS] Generated Gradle configuration")
               /\ pc' = next
               /\ UNCHANGED <<exit_code, error>>
          ELSE Fail(r)
    /\ UNCHANGED scanner
    /\ UNCHANGED <<args, config_exists, doc, yaml_format, config, hasKt, live, backup,
                   live0, backup0, staged0>>

\* main(), lines 413-414
Generate ==
    \/ /\ args.generate
       /\ CallGenerate("generate", "update")
    \/ /\ ~args.generate
       /\ pc = "generate"
       /\ pc' = "update"
       /\ UNCHANGED scanner
       /\ UNCHANGED <<args, config_exists, doc, yaml_format, config, hasKt, live, backup, staged,
                      exit_code, error, log, deps_result, live0, backup0, staged0>>

\* main(), lines 416-417 and update_build_gradle line 272
UpdGenerate ==
    \/ /\ args.update
       /\ CallGenerate("update", "upd_check")
    \/ /\ ~args.update
       /\ pc = "update"
       /\ pc' = "finish"
       /\ UNCHANGED scanner
       /\ UNCHANGED <<args, config_exists, doc, yaml_format, config, hasKt, live, backup, staged,
                      exit_code, error, log, deps_result, live0, backup0, staged0>>

\* lines 274-290 as a function of the two files: what the safe-update check does
\*   "raise"  a read failed,  "blocked"  diff printed, temp file removed, return,
\*   "warn"   diff printed, continue (force),  "pass"  nothing printed, continue
safe_check(safe_update, force, liveFile, tempFile) ==
    IF safe_update /\ liveFile.exists
    THEN LET cur == read_text(liveFile)
             gen == read_text(tempFile) IN
         IF ~cur.ok THEN [act |-> "raise", exc |-> cur]
         ELSE IF ~gen.ok THEN [act |-> "raise", exc |-> gen]
         ELSE IF unified_diff(cur.val, gen.val) # <<>>
              THEN IF ~force THEN [act |-> "blocked", exc |-> cur]
                   ELSE [act |-> "warn", exc |-> cur]
              ELSE [act |-> "pass", exc |-> cur]
    ELSE [act |-> "pass", exc |-> Return(<<>>)]

\* update_build_gradle, lines 274-290
UpdCheck ==
    /\ pc = "upd_check"
    /\ LET c == safe_check(args.safe_update, args.force, live, staged) IN
       CASE c.act = "raise" ->
                /\ Fail(c.exc)
                /\ UNCHANGED staged
         [] c.act = "blocked" ->
                /\ log' = log \o <<"[WARN] Safe update mode detected changes", "diff",
                                   "[WARN] Destructive replacement prevented">>
                /\ staged' = NoFile
                /\ pc' = "finish"
                /\ UNCHANGED <<exit_code, error>>
         [] c.act = "warn" ->
                /\ log' = log \o <<"[WARN] Safe update mode detected changes", "diff">>
                /\ pc' = "upd_backup"
                /\ UNCHANGED <<staged, exit_code, error>>
         [] c.act = "pass" ->
                /\ pc' = "upd_backup"
                /\ UNCHANGED <<staged, log, exit_code, error>>
    /\ UNCHANGED scanner
    /\ UNCHANGED <<args, config_exists, doc, yaml_format, config, hasKt, live, backup,
                   deps_result, live0, backup0, staged0>>

BackupSkipped(liveFile, backupFile) == backupFile

\* lines 293-296: the file at the backup path once the lines have run
backup_original(liveFile, backupFile) ==
    IF liveFile.exists THEN liveFile ELSE backupFile

\* update_build_gradle, lines 293-297: shutil.copy(build_gradle, backup_file);
\* the copy can fail (OSError) and then leaves the backup path as it was
UpdBackup ==
    /\ pc = "upd_backup"
    /\ IF live.exists
       THEN \E io_ok \in BOOLEAN :
              IF io_ok
              THEN /\ backup' = backup_original(live, backup)
                   /\ log' = Append(log, "[INFO] Backed up original build.gradle")
                   /\ pc' = "upd_copy"
                   /\ UNCHANGED <<exit_code, error>>
              ELSE /\ Fail(Raise("OSError", <<"copy to build.gradle.backup failed">>))
                   /\ UNCHANGED backup
       ELSE /\ pc' = "upd_copy"
            /\ UNCHANGED <<backup, log, exit_code, error>>
    /\ UNCHANGED scanner
    /\ UNCHANGED <<args, config_exists, doc, yaml_format, config, hasKt, live, staged,
                   deps_result, live0, backup0, staged0>>

\* update_build_gradle, lines 300-302: shutil.copy(temp_file, build_gradle)
UpdCopy ==
    /\ pc = "upd_copy"
    /\ \E io_ok \in BOOLEAN :
         IF io_ok
         THEN /\ live' = staged
              /\ log' = Append(log, "[SUCCESS] Updated build.gradle")
              /\ pc' = "upd_unlink"
              /\ UNCHANGED <<exit_code, error>>
         ELSE /\ Fail(Raise("OSError", <<"copy to build.gradle failed">>))
              /\ UNCHANGED live
    /\ UNCHANGED scanner
    /\ UNCHANGED <<args, config_exists, doc, yaml_format, config, hasKt, backup, staged,
                   deps_result, live0, backup0, staged0>>

\* update_build_gradle, line 305: temp_file.unlink()
UpdUnlink ==
    /\ pc = "upd_unlink"
    /\ staged' = NoFile
    /\ pc' = "finish"
    /\ UNCHANGED scanner
    /\ UNCHANGED <<args, config_exists, doc, yaml_format, config, hasKt, live, backup,
                   exit_code, error, log, deps_result, live0, backup0, staged0>>

\* main(), lines 419-427
Finish ==
    /\ pc = "finish"
    /\ log' = IF ~(args.summary \/ args.generate \/ args.update)
              THEN log \o <<"summary", "[INFO] Use -g to generate, -u to update, or -s for summary">>
              ELSE log
    /\ exit_code' = 0
    /\ pc' = "done"
    /\ UNCHANGED scanner
    /\ UNCHANGED <<args, config_exists, doc, yaml_format, config, hasKt, live, backup, staged,
                   error, deps_result, live0, backup0, staged0>>

Next ==
    \/ LoadConfig
    \/ Summary
    \/ Generate
    \/ UpdGenerate
    \/ UpdCheck
    \/ UpdBackup
    \/ UpdCopy
    \/ UpdUnlink
    \/ Finish

-----------------------------------------------------------------------------
(* Inputs of a run *)

TopKeys == {"app", "build", "version", "build_types", "dependencies",
            "project", "variants", "versioning", "android", "libraries"}

\* sample sections shared by the documents of the model
SampleBuildTypes ==
    << <<"debug", [debuggable |-> TRUE]>>,
       <<"release", [minify_enabled |-> TRUE, shrink_resources |-> TRUE,
                     proguard_files |-> [type |-> "list", val |-> <<"proguard-rules.pro">>]]>> >>
SampleVariants ==
    << [name |-> "debug", config |-> [debuggable |-> TRUE]],
       [name |-> "release", config |-> [minifyEnabled |-> TRUE]] >>

\* a document that is a mapping with top-level keys `keys`
MakeDoc(keys, dependencies, libraries) ==
    [kind |-> "map", keys |-> keys,
     app |-> [name |-> "Demo", package |-> "com.example.demo"],
     build |-> [compile_sdk |-> "33", min_sdk |-> "26"],
     version |-> [code |-> "7", name |-> "1.2"],
     build_types |-> SampleBuildTypes,
     dependencies |-> dependencies,
     project |-> [name |-> "Demo", id |-> "com.example.demo"],
     variants |-> SampleVariants,
     versioning |-> [version_code |-> "7"],
     android |-> [compileSdk |-> "33"],
     libraries |-> libraries]

\* an empty YAML file: yaml.safe_load returns None
NullDoc == [MakeDoc({}, <<>>, <<>>) EXCEPT !.kind = "null"]

GoodCoordinate == Str(<<"1", ":", "material", ":", "1">>)
GoodShorthand == Str(<<"material", ":", "1">>)
OtherShorthand == Str(<<"1", ":", "1">>)
BadEntry == Str(<<"material">>)

MarkerSets == { {"app", "build"}, {"project", "variants"},
                {"app", "build", "project", "variants"}, {"app", "variants"}, {} }

\* documents of the run specification: every marker set, with well-formed or
\* malformed dependency declarations in both dialects' sections
RunDocs ==
    { MakeDoc(m \cup {"version", "build_types", "dependencies", "libraries"},
              <<GoodCoordinate, e>>,
              << <<"tensorflow", <<GoodShorthand>>>>, <<"androidx", <<e>>>> >>)
      : m \in MarkerSets, e \in {GoodShorthand, BadEntry} }

\* the same bytes with every line end written as "\r\n"
WithCRLF(f) == [f EXCEPT !.eol = "\r\n"]

HandEdited ==
    [exists |-> TRUE, eol |-> "\n", utf8 |-> TRUE,
     lines |-> << <<"// maintained by hand">>, <<"dependencies {">>, <<"}">> >>]
\* a manifest whose bytes are not valid UTF-8
Undecodable == [HandEdited EXCEPT !.utf8 = FALSE]
StaleStaged == [HandEdited EXCEPT !.lines = << <<"// stale build.gradle.generated">> >>]
OldBackup == [HandEdited EXCEPT !.lines = << <<"// earlier backup">> >>]

\* manifests an earlier run of the same configuration left as app/build.gradle
EarlierGenerated(fmt, d) ==
    LET f == load_config(TRUE, d, fmt) IN
    IF ~f.ok THEN {}
    ELSE LET g == [k \in BOOLEAN |-> generate_gradle_config(f.val, d, k, NoFile, NoFile)] IN
         { g[k].val : k \in {b \in BOOLEAN : g[b].ok} }

ArgSets == [format : {"auto", "toolneuron", "cleverferret"},
            summary : BOOLEAN, generate : BOOLEAN, update : BOOLEAN,
            safe_update : BOOLEAN, force : BOOLEAN]

\* the part of Init common to all specifications
InitRun ==
    /\ ScannerIdle
    /\ yaml_format = args.format
    /\ config = UnsetConfig
    /\ pc = "load"
    /\ exit_code = -1
    /\ error = NoError
    /\ log = <<>>
    /\ deps_result = Return(<<>>)
    /\ live0 = live
    /\ backup0 = backup
    /\ staged0 = staged

Init ==
    /\ args \in ArgSets
    /\ config_exists \in BOOLEAN
    /\ doc \in RunDocs \cup {NullDoc}
    \* without auto-detection an empty document fails later with AttributeError,
    \* which no operator of the model raises; a missing file has no content
    /\ doc = NullDoc => args.format = "auto" /\ config_exists
    /\ ~config_exists => doc = MakeDoc({}, <<>>, <<>>)
    /\ hasKt \in BOOLEAN
    /\ live \in {NoFile, HandEdited, Undecodable}
                \cup EarlierGenerated(args.format, doc)
                \cup {WithCRLF(f) : f \in EarlierGenerated(args.format, doc)}
    /\ backup \in {NoFile, OldBackup}
    /\ staged \in {NoFile, StaleStaged}
    /\ InitRun

Spec == Init /\ [][Next]_vars

\* every marker-key combination, with well-formed dependency declarations
DetectDocs ==
    { MakeDoc(m \cup {"version", "dependencies", "libraries"},
              <<GoodCoordinate>>, << <<"androidx", <<GoodShorthand>>>> >>)
      : m \in SUBSET {"app", "build", "project", "variants"} }

InitDetect ==
    /\ args \in ArgSets
    /\ config_exists \in BOOLEAN
    /\ doc \in DetectDocs \cup {NullDoc}
    /\ doc = NullDoc => args.format = "auto" /\ config_exists
    /\ ~config_exists => doc = MakeDoc({}, <<>>, <<>>)
    /\ hasKt = FALSE
    /\ live \in {NoFile, HandEdited}
    /\ backup = NoFile
    /\ staged = NoFile
    /\ InitRun

SpecDetect == InitDetect /\ [][Next]_vars

-----------------------------------------------------------------------------
(* Properties of the safe-update controller *)

InLog(line) == \E i \in 1..Len(log) : log[i] = line

\* update_build_gradle has returned normally
UpdateReturned == args.update /\ pc = "finish"

\* the manifest the update call generated (it probes the live file of the call)
Generated == generate_gradle_config(yaml_format, config, hasKt, live0, staged0).val

\* the diff of lines 275-282 between the pre-call live manifest and the generated one
DiffOf(liveFile, genFile) == unified_diff(read_text(liveFile).val, read_text(genFile).val)

\* C1 (as claimed): safe_update without force on a live manifest that differs
\* from the generated one ends Blocked: live file as before, no backup written,
\* no staged file left.
C1_BlockedWhenDifferent ==
    (UpdateReturned /\ args.safe_update /\ ~args.force /\ live0.exists /\ live0 # Generated)
        => /\ live = live0
           /\ backup = backup0
           /\ ~staged.exists
           /\ InLog("[WARN] Destructive replacement prevented")

\* C2: every step that overwrites an existing live manifest starts with the
\* backup already holding the live content, and leaves it there.
C2_BackupBeforeOverwrite ==
    [][ ( /\ live.exists
          /\ \/ live' # live
             \/ /\ Len(log') = Len(log) + 1
                /\ log'[Len(log')] = "[SUCCESS] Updated build.gradle" )
        => (backup.exists /\ backup = live /\ backup' = live) ]_vars

C2_Witness ==
    /\ pc = "upd_unlink" /\ ~args.safe_update /\ ~args.force
    /\ live0.exists /\ live # live0 /\ backup = live0 /\ backup0 # live0

\* C3 (as claimed): safe_update on a live manifest byte-identical to the
\* generated one performs no backup and no overwrite, whatever force is.
C3_NoChangeWhenIdentical ==
    (UpdateReturned /\ args.safe_update /\ live0.exists /\ live0 = Generated)
        => /\ backup = backup0
           /\ ~InLog("[INFO] Backed up original build.gradle")
           /\ ~InLog("[SUCCESS] Updated build.gradle")

\* C4 (as claimed): however update_build_gradle exits after writing the staged
\* manifest - return, or an exception of the read, the backup copy or the
\* overwrite - the staged file does not exist afterwards.
C4_StagedCleanedOnEveryExit ==
    (args.update /\ ( \/ pc = "finish"
                      \/ pc = "done" /\ exit_code = 0
                      \/ pc = "done" /\ error.at \in {"upd_check", "upd_backup", "upd_copy"} ))
        => ~staged.exists

\* C5 (as claimed): after a normal return the live manifest has been replaced
\* by the generated content exactly when there was no live file (and then no
\* backup is made), or safe_update is off, or safe_update is on with a
\* non-empty diff and force; in every other case it is the file it was.
C5_ReplacedExactlyInListedCases ==
    UpdateReturned =>
        LET listed == \/ ~live0.exists
                      \/ ~args.safe_update
                      \/ args.safe_update /\ args.force /\ DiffOf(live0, Generated) # <<>>
        IN /\ listed => live = Generated
           /\ ~live0.exists => backup = backup0
           /\ ~listed => live = live0

\* C6: a run that ends with a missing input file, an unrecognized dialect or a
\* malformed dependency returns non-zero and leaves the live manifest, the
\* backup and the staging path as they were before the run.
FatalInputError ==
    \/ error.kind = "FileNotFoundError"
    \/ error.kind = "ValueError" /\ error.msg = <<"Unknown YAML format">>
    \/ error.kind = "ValueError" /\ Len(error.msg) > 0
                                 /\ error.msg[1] \in {"Malformed dependency in ",
                                                     "Malformed dependency coordinate ",
                                                     "Malformed dependency coordinate: expected string, got "}

-----------------------------------------------------------------------------
(* Dialect detection *)

HasA(d) == "app" \in d.keys /\ "build" \in d.keys
HasB(d) == "project" \in d.keys /\ "variants" \in d.keys

\* nothing after load_config has run: no output but the error, no file touched
NothingRan ==
    /\ log = <<"[ERROR]">>
    /\ live = live0 /\ backup = backup0 /\ staged = staged0
    /\ deps_result = Return(<<>>)

DetectionOutcome ==
    /\ HasA(doc) => yaml_format = "toolneuron"
    /\ (~HasA(doc) /\ HasB(doc)) => yaml_format = "cleverferret"
    /\ (~HasA(doc) /\ ~HasB(doc)) =>
           /\ pc = "done" /\ exit_code = 1
           /\ error.kind = "ValueError" /\ error.msg = <<"Unknown YAML format">>
           /\ error.at = "load"
           /\ NothingRan

-----------------------------------------------------------------------------
(* Dependency resolution applied to bounded documents *)

StringsUpTo(n) == UNION { [1..k -> Tokens] : k \in 0..n }

\* every text of at most MaxEntryLen tokens, and the non-string nodes
ProbeEntries == { Str(t) : t \in StringsUpTo(MaxEntryLen) } \cup NonStrings

\* a list holding the probed entry alone, after or before a well-formed one
ProbeLists(e, good) == { <<e>>, <<good, e>>, <<e, good>> }

GroupKeys == {"androidx", "google_services", "tensorflow"}

\* dialect-A document: the flat dependencies list
DocA(dependencies) == MakeDoc({"app", "build", "dependencies"}, dependencies, <<>>)

\* dialect-B document: the grouped libraries mapping
DocB(libraries) == MakeDoc({"project", "variants", "libraries"}, <<>>, libraries)

GroupLists == UNION { [1..k -> {GoodShorthand, OtherShorthand}] : k \in 0..MaxGroupLen }

\* the documents get_dependencies is applied to:
\*  - dialect A, the probed entry in the dependencies list;
\*  - dialect B, the probed entry in one library group;
\*  - dialect B, any subset of the three group keys in any document order, each
\*    with a list of well-formed shorthands (repeats included)
InitDepsDoc ==
    \/ \E e \in ProbeEntries : \E l \in ProbeLists(e, GoodCoordinate) : doc = DocA(l)
    \/ \E e \in ProbeEntries : \E l \in ProbeLists(e, GoodShorthand) : \E g \in GroupKeys :
           doc = DocB(<< <<g, l>> >>)
    \/ \E k \in 0..3 : \E keys \in [1..k -> GroupKeys] : \E lists \in [1..k -> GroupLists] :
           /\ \A i, j \in 1..k : i # j => keys[i] # keys[j]
           /\ doc = DocB([i \in 1..k |-> <<keys[i], lists[i]>>])

\* the configurator after a successful load_config, before get_dependencies
InitDeps ==
    /\ ScannerIdle
    /\ InitDepsDoc
    /\ args = [format |-> "auto", summary |-> FALSE, generate |-> TRUE, update |-> FALSE,
               safe_update |-> FALSE, force |-> FALSE]
    /\ config_exists = TRUE
    /\ yaml_format = load_config(TRUE, doc, "auto").val
    /\ config = doc
    /\ hasKt = FALSE
    /\ live = NoFile /\ backup = NoFile /\ staged = NoFile
    /\ pc = "call"
    /\ exit_code = -1
    /\ error = NoError
    /\ log = <<"[INFO] Loaded configuration">>
    /\ deps_result = Return(<<>>)
    /\ live0 = live /\ backup0 = backup /\ staged0 = staged

\* configurator.get_dependencies(), as run_self_check calls it (line 353)
GetDependenciesCall ==
    /\ pc = "call"
    /\ deps_result' = get_dependencies(yaml_format, config)
    /\ pc' = "generate"
    /\ UNCHANGED scanner
    /\ UNCHANGED <<args, config_exists, doc, yaml_format, config, hasKt, live, backup, staged,
                   exit_code, error, log, live0, backup0, staged0>>

NextDeps ==
    \/ GetDependenciesCall
    \/ CallGenerate("generate", "finish")

SpecDeps == InitDeps /\ [][NextDeps]_vars

-----------------------------------------------------------------------------
(* Properties of dependency resolution, stated on the text of the entries *)

\* the positions of the colons of t
Colons(t) == {i \in 1..Len(t) : t[i] = ":"}

\* the position of the k-th colon of t (0 before the first, Len(t) + 1 after the last)
ColonAt(t, k) ==
    IF k = 0 THEN 0
    ELSE IF k > Cardinality(Colons(t)) THEN Len(t) + 1
    ELSE CHOOSE i \in Colons(t) : Cardinality({j \in Colons(t) : j < i}) = k - 1

NumSegments(t) == Cardinality(Colons(t)) + 1

\* the positions of the tokens of the k-th colon-separated segment that are not whitespace
Inked(t, k) == {i \in (ColonAt(t, k - 1) + 1)..(ColonAt(t, k) - 1) : t[i] # " "}

\* n colon-separated segments, none empty or made of whitespace only
WellFormedText(t, n) ==
    /\ NumSegments(t) = n
    /\ \A k \in 1..n : Inked(t, k) # {}

WellFormedEntry(e, n) == e.type = "str" /\ WellFormedText(e.val, n)

\* the k-th segment of t without its surrounding whitespace
TrimmedSegment(t, k) ==
    LET inked == Inked(t, k)
        lo == CHOOSE i \in inked : \A j \in inked : i <= j
        hi == CHOOSE i \in inked : \A j \in inked : i >= j
    IN SubSeq(t, lo, hi)

\* what the document declares, in the order the spec visits it:
\* <<group, entry>> pairs (group "" for the flat dialect-A list)
RECURSIVE Tagged(_, _)
Tagged(g, l) == IF l = <<>> THEN <<>> ELSE << <<g, Head(l)>> >> \o Tagged(g, Tail(l))

libraries_of(d) == IF "libraries" \in d.keys THEN d.libraries ELSE <<>>
GroupOf(d, g) ==
    IF \E i \in DOMAIN libraries_of(d) : libraries_of(d)[i][1] = g
    THEN libraries_of(d)[CHOOSE i \in DOMAIN libraries_of(d) : libraries_of(d)[i][1] = g][2]
    ELSE <<>>

DeclaredIn(fmt, d) ==
    IF fmt = "toolneuron"
    THEN Tagged("", IF "dependencies" \in d.keys THEN d.dependencies ELSE <<>>)
    ELSE Tagged("androidx", GroupOf(d, "androidx"))
         \o Tagged("google_services", GroupOf(d, "google_services"))
         \o Tagged("tensorflow", GroupOf(d, "tensorflow"))

SegmentsWanted == IF yaml_format = "toolneuron" THEN 3 ELSE 2

\* the positions of the malformed declarations of dcl
MalformedIn(dcl) == {i \in DOMAIN dcl : ~WellFormedEntry(dcl[i][2], SegmentsWanted)}

Min(S) == CHOOSE i \in S : \A j \in S : i <= j

Resolved == pc # "call"

IsMalformedDependencyError(r) ==
    /\ ~r.ok /\ r.kind = "ValueError"
    /\ r.msg[1] \in {"Malformed dependency in ", "Malformed dependency coordinate ",
                     "Malformed dependency coordinate: expected string, got "}

\* the message quotes the text of the entry
NamesEntry(r, e) == Contains(r.msg, <<"'">> \o e.val \o <<"'">>)

\* C7 (as claimed): a malformed entry of either dialect makes get_dependencies
\* fail with a MalformedDependency error naming that entry (the first one in
\* visiting order); a returned list has one coordinate per declared entry.
C7_MalformedNamed ==
    Resolved =>
        LET dcl == DeclaredIn(yaml_format, doc)
            bad == MalformedIn(dcl)
        IN /\ bad # {} =>
                  /\ IsMalformedDependencyError(deps_result)
                  /\ NamesEntry(deps_result, dcl[Min(bad)][2])
           /\ deps_result.ok => Len(deps_result.val) = Len(dcl)

\* the part of C7 that the code keeps: string entries are named, nothing is dropped
C7_StringEntriesNamed ==
    Resolved =>
        LET dcl == DeclaredIn(yaml_format, doc)
            bad == MalformedIn(dcl)
        IN /\ bad # {} =>
                  /\ IsMalformedDependencyError(deps_result)
                  /\ dcl[Min(bad)][2].type = "str" => NamesEntry(deps_result, dcl[Min(bad)][2])
           /\ deps_result.ok => Len(deps_result.val) = Len(dcl)

\* the publisher prefix the spec gives a group (4.2), for shorthand name `name`
ExpectedGroupId(group, name) ==
    CASE group = "androidx" ->
             IF name = <<"material">> THEN <<"com.google.android.material">>
             ELSE <<"androidx.">> \o name
      [] group = "google_services" -> <<"com.google.android.gms">>
      [] group = "tensorflow" -> <<"org.tensorflow">>

\* coordinate c is what declaration <<group, entry>> expands to
ExpandsDeclaration(c, decl) ==
    LET g == decl[1]
        t == decl[2].val IN
    IF g = "" THEN c = t
    ELSE /\ NumSegments(c) = 3
         /\ TrimmedSegment(c, 1) = ExpectedGroupId(g, TrimmedSegment(t, 1))
         /\ TrimmedSegment(c, 2) = TrimmedSegment(t, 1)
         /\ TrimmedSegment(c, 3) = TrimmedSegment(t, 2)
         /\ c = TrimmedSegment(c, 1) \o <<":">> \o TrimmedSegment(c, 2) \o <<":">> \o TrimmedSegment(c, 3)

\* C10: every well-formed shorthand expands by its group's rule (the androidx
\* exception table first), into three non-empty segments; dialect-A coordinates
\* are returned unchanged.
C10_CoordinateExpansion ==
    Resolved =>
        LET dcl == DeclaredIn(yaml_format, doc) IN
        MalformedIn(dcl) = {} =>
            /\ deps_result.ok
            /\ Len(deps_result.val) = Len(dcl)
            /\ \A i \in DOMAIN dcl :
                   /\ ExpandsDeclaration(deps_result.val[i], dcl[i])
                   /\ WellFormedText(deps_result.val[i], 3)

C10_Witness ==
    /\ Resolved /\ yaml_format = "cleverferret" /\ deps_result.ok
    /\ doc.libraries = << <<"androidx", <<GoodShorthand, Str(<<" ", "material", ":", "1", " ">>)>>>> >>
    /\ deps_result.val[2] = <<"com.google.android.material", ":", "material", ":", "1">>

\* the dependency lines of a manifest, in file order
DependencyLinesOf(f) ==
    SelectSeq(f.lines, LAMBDA l : Len(l) > 0 /\ l[1] = "    implementation '")

\* C9: for grouped input the resolved list is the androidx entries, then the
\* google_services entries, then the tensorflow entries, each in declared order
\* and with repeats, whatever the key order of 'libraries'; the manifest has one
\* dependency line per coordinate in that order.
C9_StableOrder ==
    (Resolved /\ yaml_format = "cleverferret" /\ MalformedIn(DeclaredIn(yaml_format, doc)) = {}) =>
        LET a == GroupOf(doc, "androidx")
            g == GroupOf(doc, "google_services")
            t == GroupOf(doc, "tensorflow")
            r == deps_result.val
            lines == DependencyLinesOf(staged)
        IN /\ deps_result.ok
           /\ Len(r) = Len(a) + Len(g) + Len(t)
           /\ \A i \in 1..Len(a) :
                  TrimmedSegment(r[i], 1) \in {<<"com.google.android.material">>,
                                               <<"androidx.">> \o TrimmedSegment(a[i].val, 1)}
                  /\ TrimmedSegment(r[i], 2) = TrimmedSegment(a[i].val, 1)
           /\ \A i \in 1..Len(g) :
                  TrimmedSegment(r[Len(a) + i], 1) = <<"com.google.android.gms">>
                  /\ TrimmedSegment(r[Len(a) + i], 2) = TrimmedSegment(g[i].val, 1)
           /\ \A i \in 1..Len(t) :
                  TrimmedSegment(r[Len(a) + Len(g) + i], 1) = <<"org.tensorflow">>
                  /\ TrimmedSegment(r[Len(a) + Len(g) + i], 2) = TrimmedSegment(t[i].val, 1)
           /\ pc \in {"finish", "done"} =>
                  /\ staged.exists
                  /\ Len(lines) = Len(r)
                  /\ \A i \in 1..Len(r) : lines[i] = <<"    implementation '">> \o r[i] \o <<"'">>

C9_Witness ==
    /\ pc = "finish" /\ yaml_format = "cleverferret"
    /\ doc.libraries = << <<"tensorflow", <<OtherShorthand, OtherShorthand>>>>,
                          <<"androidx", <<OtherShorthand, GoodShorthand>>>>,
                          <<"google_services", <<GoodShorthand>>>> >>
    /\ deps_result.val = << <<"androidx.", "1", ":", "1", ":", "1">>,
                            <<"com.google.android.material", ":", "material", ":", "1">>,
                            <<"com.google.android.gms", ":", "material", ":", "1">>,
                            <<"org.tensorflow", ":", "1", ":", "1">>,
                            <<"org.tensorflow", ":", "1", ":", "1">> >>
    /\ Len(DependencyLinesOf(staged)) = 5

-----------------------------------------------------------------------------
(* Build-type rendering applied to bounded build-type sections *)

MaxBuildTypes == 2

BuildTypeNames == {"debug", "release", "staging"}

\* values of a build type's proguard_files key: an empty list, lists of one and
\* of two files in both orders, and a scalar where a list is expected
ProguardValues ==
    { [type |-> "list", val |-> <<>>],
      [type |-> "list", val |-> <<"a.pro">>],
      [type |-> "list", val |-> <<"a.pro", "b.pro">>],
      [type |-> "list", val |-> <<"b.pro", "a.pro">>],
      [type |-> "str", val |-> <<"a.pro">>] }

\* dialect-A build-type dicts: enabled absent, true or false; proguard_files
\* absent or one of ProguardValues; the other keys left at their defaults
BuildTypeConfigs ==
    LET enabled == {EmptyMap} \cup { [enabled |-> b] : b \in BOOLEAN }
        proguard == {EmptyMap} \cup { [proguard_files |-> v] : v \in ProguardValues }
    IN { e @@ p : e \in enabled, p \in proguard }

\* dialect-B variants: a variant has no proguard key that get_build_types reads
VariantChoices ==
    { [name |-> n, config |-> c] :
        n \in BuildTypeNames,
        c \in { EmptyMap, [minifyEnabled |-> TRUE],
                [minifyEnabled |-> TRUE, shrinkResources |-> TRUE] } }

\* dialect-A document with the build_types mapping bt (keys unique, in order)
DocBuildTypes(bt) == [MakeDoc({"app", "build", "build_types"}, <<>>, <<>>) EXCEPT !.build_types = bt]

\* dialect-B document with the variants list v (names may repeat)
DocVariants(v) == [MakeDoc({"project", "variants"}, <<>>, <<>>) EXCEPT !.variants = v]

InitBuildTypesDoc ==
    \/ \E k \in 0..MaxBuildTypes : \E names \in [1..k -> BuildTypeNames] :
         \E cfgs \in [1..k -> BuildTypeConfigs] :
           /\ \A i, j \in 1..k : i # j => names[i] # names[j]
           /\ doc = DocBuildTypes([i \in 1..k |-> <<names[i], cfgs[i]>>])
    \/ \E k \in 0..MaxBuildTypes : \E v \in [1..k -> VariantChoices] : doc = DocVariants(v)

\* the configurator after a successful load_config, about to generate (-g)
InitBuildTypes ==
    /\ ScannerIdle
    /\ InitBuildTypesDoc
    /\ args = [format |-> "auto", summary |-> FALSE, generate |-> TRUE, update |-> FALSE,
               safe_update |-> FALSE, force |-> FALSE]
    /\ config_exists = TRUE
    /\ yaml_format = load_config(TRUE, doc, "auto").val
    /\ config = doc
    /\ hasKt \in BOOLEAN
    /\ live = NoFile /\ backup = NoFile /\ staged = NoFile
    /\ pc = "generate"
    /\ exit_code = -1
    /\ error = NoError
    /\ log = <<"[INFO] Loaded configuration">>
    /\ deps_result = Return(<<>>)
    /\ live0 = live /\ backup0 = backup /\ staged0 = staged

NextBuildTypes ==
    \/ CallGenerate("generate", "finish")
    \/ Finish

SpecBuildTypes == InitBuildTypes /\ [][NextBuildTypes]_vars

-----------------------------------------------------------------------------
(* C11: the proguard directive of each rendered build type *)

\* the build types generate_gradle_config renders: those of the configuration,
\* or the synthetic release entry when there are none
RenderedBuildTypes ==
    LET b == get_build_types(yaml_format, config) IN
    IF b = <<>> THEN DefaultBuildTypes ELSE b

IsEnabled(cfg) == Get(cfg, "enabled", TRUE)

\* the lines of the block "<name> {" ... "}" of the manifest text, << >> if absent
BlockOf(lines, name) ==
    LET starts == {i \in 1..Len(lines) : lines[i] = <<"        ", name, " {">>} IN
    IF starts = {} THEN <<>>
    ELSE LET lo == Min(starts)
             hi == Min({j \in lo..Len(lines) : lines[j] = <<"        }">>})
         IN SubSeq(lines, lo, hi)

IsProguardDirective(line) ==
    /\ line # <<>>
    /\ line[1] = "            proguardFiles getDefaultProguardFile('proguard-android-optimize.txt')"

\* the proguard directives of a block, in order
DirectivesOf(block) == SelectSeq(block, IsProguardDirective)

\* the files a directive lists after the baseline file: tokens ", '" f "'"
ListedAfterBaseline(line) == [k \in 1..((Len(line) - 1) \div 3) |-> line[3 * k]]

\* the directive has the baseline file followed by exactly `files`
ListsBaselineThen(line, files) ==
    /\ Len(line) = 1 + 3 * Len(files)
    /\ ListedAfterBaseline(line) = files
    /\ \A k \in 1..Len(files) : line[3 * k - 1] = ", '" /\ line[3 * k + 1] = "'"

GeneratedOk == pc \in {"finish", "done"} /\ staged.exists

\* C11 (as claimed): non-empty proguard_files give one directive listing the
\* baseline file then every listed file in order; a build type named "release"
\* without proguard_files gives one directive listing the baseline file alone;
\* any other build type without proguard_files gets no directive.
C11_ProguardDirectiveRule ==
    GeneratedOk =>
        \A i \in DOMAIN RenderedBuildTypes :
            LET name == RenderedBuildTypes[i][1]
                cfg == RenderedBuildTypes[i][2]
                files == Get(cfg, "proguard_files", NoProguard).val
                d == DirectivesOf(BlockOf(staged.lines, name))
            IN IsEnabled(cfg) =>
                 IF files # <<>> THEN Len(d) = 1 /\ ListsBaselineThen(d[1], files)
                 ELSE IF name = "release" THEN Len(d) = 1 /\ ListsBaselineThen(d[1], <<>>)
                 ELSE d = <<>>

\* what the code renders instead: the release default lists 'proguard-rules.pro'
\* after the baseline file, and a proguard_files value that is not a list gives
\* no directive; a build type that is not enabled has no block
C11_RenderedDirective ==
    GeneratedOk =>
        \A i \in DOMAIN RenderedBuildTypes :
            LET name == RenderedBuildTypes[i][1]
                cfg == RenderedBuildTypes[i][2]
                given == Get(cfg, "proguard_files", NoProguard)
                block == BlockOf(staged.lines, name)
                d == DirectivesOf(block)
            IN IF ~IsEnabled(cfg) THEN block = <<>>
               ELSE IF given.val # <<>>
                    THEN IF given.type = "list"
                         THEN Len(d) = 1 /\ ListsBaselineThen(d[1], given.val)
                         ELSE d = <<>>
               ELSE IF name = "release"
                    THEN Len(d) = 1 /\ ListsBaselineThen(d[1], <<"proguard-rules.pro">>)
               ELSE d = <<>>


-----------------------------------------------------------------------------
(* Two runs of main() in a row on the same project directory *)

\* the terminal line between the two runs
RerunMark == "$ second run"

\* a dependency whose text holds the Kotlin plugin id: a well-formed coordinate
\* (dialect A) and a well-formed shorthand (dialect B)
PluginTextCoordinate == Str(<<"1", ":", KotlinPluginId, ":", "1">>)
PluginTextShorthand == Str(<<KotlinPluginId, ":", "1">>)

RerunDocs ==
    { DocA(<<GoodCoordinate>>),
      DocA(<<GoodCoordinate, PluginTextCoordinate>>),
      DocB(<< <<"androidx", <<GoodShorthand>>>> >>),
      DocB(<< <<"tensorflow", <<PluginTextShorthand>>>> >>) }

InitRerun ==
    /\ args \in ArgSets
    /\ config_exists = TRUE
    /\ doc \in RerunDocs
    /\ hasKt \in BOOLEAN
    /\ live \in {NoFile, HandEdited, Undecodable}
                \cup EarlierGenerated(args.format, doc)
                \cup {WithCRLF(f) : f \in EarlierGenerated(args.format, doc)}
    /\ backup \in {NoFile, OldBackup}
    /\ staged \in {NoFile, StaleStaged}
    /\ InitRun

\* a new process of main() started after a run that returned 0 and replaced or
\* created app/build.gradle: same configuration file and format option, same
\* source tree, files as the first run left them; -u --safe-update, no --force
Rerun ==
    /\ pc = "done"
    /\ exit_code = 0
    /\ InLog("[SUCCESS] Updated build.gradle")
    /\ ~InLog(RerunMark)
    /\ \E a \in ArgSets :
         /\ a.format = args.format
         /\ a.update /\ a.safe_update /\ ~a.force
         /\ args' = a
         /\ yaml_format' = a.format
    /\ config' = UnsetConfig
    /\ pc' = "load"
    /\ exit_code' = -1
    /\ error' = NoError
    /\ log' = Append(log, RerunMark)
    /\ deps_result' = Return(<<>>)
    /\ live0' = live
    /\ backup0' = backup
    /\ staged0' = staged
    /\ UNCHANGED scanner
    /\ UNCHANGED <<config_exists, doc, hasKt, live, backup, staged>>

NextRerun ==
    \/ Next
    \/ Rerun

SpecRerun == InitRerun /\ [][NextRerun]_vars

-----------------------------------------------------------------------------
(* C12: the second run regenerates the live manifest *)

SecondRun == InLog(RerunMark)

\* the second run has generated its manifest and is about to compare
SecondRunGenerated == SecondRun /\ pc = "upd_check"

Blocked == InLog("[WARN] Destructive replacement prevented")

\* the manifest text generated without the plugin lines already holds the
\* plugin id (it came in with a configuration value)
PluginTextInConfig ==
    LET g == generate_gradle_config(load_config(TRUE, doc, args.format).val, doc,
                                    FALSE, NoFile, NoFile) IN
    g.ok /\ HasKotlinPluginText(read_text(g.val).val)

\* C12 (as claimed): the manifest the second run generates is byte-identical to
\* the live one, and the second run (safe_update, no force) is never Blocked.
\* (Only the second run can log Blocked: the first one replaced the manifest.)
C12_RerunFixedPoint ==
    /\ SecondRunGenerated => staged = live
    /\ SecondRun => ~Blocked

\* the fixed point holds whenever no configuration value brings the plugin id
\* into the manifest text
C12_FixedPointWithoutPluginText ==
    ~PluginTextInConfig =>
        /\ SecondRunGenerated => staged = live
        /\ SecondRun => ~Blocked

-----------------------------------------------------------------------------
(* The vulnerability scan: check_direct_vulns.py                             *)

\* OSV_RETRIES: urlopen attempts inside one osv_query call
OSV_RETRIES == 3
\* range(3): osv_query calls main() makes per coordinate
MainAttempts == 3
\* the threshold 9.0 of is_critical, in tenths
CriticalScore == 90

\* most direct dependencies of a project, most advisories of one answer
MaxDeps == 2
MaxVulns == 2

\* a score value of an advisory.  type: None, a number, or a text; number: the
\* value in tenths that parse_cvss_score returns (-1 is None: a text without a
\* number); critical: whether str(score).upper() contains "CRITICAL"
NoScore == [type |-> "none", number |-> -1, critical |-> FALSE]
NumberScore(n) == [type |-> "number", number |-> n, critical |-> FALSE]
TextScore(n, c) == [type |-> "text", number |-> n, critical |-> c]

\* parse_cvss_score inside is_critical
parse_cvss_score(raw_score) == raw_score.number

\* str.upper() of the labels the sample advisories carry
Upper(label) ==
    CASE label = "critical" -> "CRITICAL"
      [] label = "high" -> "HIGH"
      [] OTHER -> label

\* is_critical(vuln)
is_critical(vuln) ==
    \/ \E k \in 1..Len(vuln.severity) :
         \/ /\ parse_cvss_score(vuln.severity[k]) # -1
            /\ parse_cvss_score(vuln.severity[k]) >= CriticalScore
         \/ vuln.severity[k].critical
    \/ /\ parse_cvss_score(vuln.database_specific.cvss_score) # -1
       /\ parse_cvss_score(vuln.database_specific.cvss_score) >= CriticalScore
    \/ Upper(vuln.database_specific.severity) = "CRITICAL"

\* advisories an answer can hold: critical by a numeric score, critical by the
\* database-specific label only, and not critical (a CVSS vector text, whose
\* first number is the CVSS version 3.1, with the label "high")
Advisories ==
    { [id |-> "GHSA-1", summary |-> "rce", severity |-> <<NumberScore(98)>>,
       database_specific |-> [cvss_score |-> NoScore, severity |-> ""]],
      [id |-> "GHSA-2", summary |-> "", severity |-> <<>>,
       database_specific |-> [cvss_score |-> NoScore, severity |-> "critical"]],
      [id |-> "GHSA-3", summary |-> "dos", severity |-> <<TextScore(31, FALSE)>>,
       database_specific |-> [cvss_score |-> NumberScore(75), severity |-> "high"]] }

\* data.get("vulns", []) of an answer
VulnLists == UNION { [1..k -> Advisories] : k \in 0..MaxVulns }

\* the i-th coordinate of the sorted list of direct dependencies
Coordinate(i) == <<"com.example", "lib", i>>

\* what one urlopen call plus the decoding of its answer can do: return the
\* advisories, raise URLError (HTTPError included), or raise something else
\* (the response timed out or the connection was dropped after the request was
\* sent, the body is not JSON)
OtherExceptions == {"TimeoutError", "JSONDecodeError"}
QueryOutcomes ==
    { [kind |-> "ok", vulns |-> v] : v \in VulnLists }
    \cup { [kind |-> k, vulns |-> <<>>] : k \in {"URLError"} \cup OtherExceptions }

\* the configurator is not running
ConfiguratorIdle ==
    /\ args = [format |-> "auto", summary |-> FALSE, generate |-> FALSE, update |-> FALSE,
               safe_update |-> FALSE, force |-> FALSE]
    /\ config_exists = FALSE
    /\ doc = MakeDoc({}, <<>>, <<>>)
    /\ yaml_format = "auto"
    /\ config = UnsetConfig
    /\ hasKt = FALSE
    /\ live = NoFile /\ backup = NoFile /\ staged = NoFile
    /\ pc = "idle"
    /\ exit_code = -1
    /\ error = NoError
    /\ log = <<>>
    /\ deps_result = Return(<<>>)
    /\ live0 = live /\ backup0 = backup /\ staged0 = staged

\* main() entered, direct_deps collected (lines 172-173)
InitScan ==
    /\ ConfiguratorIdle
    /\ \E n \in 0..MaxDeps : direct_deps = [i \in 1..n |-> Coordinate(i)]
    /\ dep_idx = 0 /\ attempt = 0 /\ osv_attempt = 0
    /\ vulns = <<>> /\ critical_hits = <<>> /\ last_exc = ""
    /\ spc = "start" /\ status = -1 /\ uncaught = ""
    /\ out = <<>>
    /\ queries = [i \in 1..Len(direct_deps) |-> 0]
    /\ failures = [i \in 1..Len(direct_deps) |-> 0]
    /\ returned = {}

\* main(), lines 175-180, and the head of the loops (lines 182-185)
ScanStart ==
    /\ spc = "start"
    /\ IF direct_deps = <<>>
       THEN /\ out' = Append(out, "No direct dependencies found.")
            /\ status' = 0
            /\ spc' = "done"
            /\ UNCHANGED <<dep_idx, attempt, osv_attempt>>
       ELSE /\ out' = Append(out, "Checking direct Maven dependencies against OSV...")
            /\ dep_idx' = 1
            /\ attempt' = 0
            /\ osv_attempt' = 1
            /\ spc' = "query"
            /\ UNCHANGED status
    /\ UNCHANGED <<direct_deps, vulns, critical_hits, last_exc, uncaught, queries, failures,
                   returned>>
    /\ UNCHANGED configurator

\* one pass of the loop of osv_query (lines 159-167) inside the loop of main()
\* (lines 185-193): one urlopen call and what follows from its outcome
Query ==
    /\ spc = "query"
    /\ queries' = [queries EXCEPT ![dep_idx] = @ + 1]
    /\ \E o \in QueryOutcomes :
         CASE o.kind = "ok" ->
                \* osv_query returns; main(): vulns = ..., last_exc = None, break
                /\ vulns' = o.vulns
                /\ last_exc' = ""
                /\ returned' = returned \cup { <<dep_idx, o.vulns[k]>> : k \in 1..Len(o.vulns) }
                /\ spc' = "after_loop"
                /\ UNCHANGED <<attempt, osv_attempt, failures, status, uncaught, out>>
           [] o.kind = "URLError" ->
                /\ failures' = [failures EXCEPT ![dep_idx] = @ + 1]
                /\ IF osv_attempt < OSV_RETRIES
                   THEN \* time.sleep(attempt), next pass of osv_query's loop
                        /\ osv_attempt' = osv_attempt + 1
                        /\ UNCHANGED <<attempt, last_exc, spc>>
                   ELSE \* osv_query re-raises; main(): last_exc = exc
                        /\ last_exc' = "URLError"
                        /\ IF attempt < MainAttempts - 1
                           THEN \* time.sleep(1.5 * (attempt + 1)), next osv_query call
                                /\ attempt' = attempt + 1
                                /\ osv_attempt' = 1
                                /\ UNCHANGED spc
                           ELSE /\ spc' = "after_loop"
                                /\ UNCHANGED <<attempt, osv_attempt>>
                /\ UNCHANGED <<vulns, returned, status, uncaught, out>>
           [] OTHER ->
                \* no except clause matches in osv_query or in main(): the
                \* interpreter prints the traceback and exits with status 1
                /\ failures' = [failures EXCEPT ![dep_idx] = @ + 1]
                /\ uncaught' = o.kind
                /\ out' = Append(out, "Traceback (most recent call last):")
                /\ status' = 1
                /\ spc' = "done"
                /\ UNCHANGED <<attempt, osv_attempt, vulns, last_exc, returned>>
    /\ UNCHANGED <<direct_deps, dep_idx, critical_hits>>
    /\ UNCHANGED configurator

\* the hits of one answer, in order (lines 198-200)
RECURSIVE CriticalHitsOf(_, _)
CriticalHitsOf(dep, vs) ==
    IF vs = <<>> THEN <<>>
    ELSE (IF is_critical(Head(vs)) THEN << <<dep, Head(vs).id, Head(vs).summary>> >> ELSE <<>>)
         \o CriticalHitsOf(dep, Tail(vs))

\* main(), lines 194-200: give up on the coordinate, or collect its critical
\* advisories and go on to the next coordinate
AfterLoop ==
    /\ spc = "after_loop"
    /\ IF last_exc # ""
       THEN /\ out' = Append(out, "ERROR: Could not query OSV after retries")
            /\ status' = 2
            /\ spc' = "done"
            /\ UNCHANGED <<dep_idx, attempt, osv_attempt, vulns, critical_hits, last_exc>>
       ELSE /\ critical_hits' = critical_hits \o CriticalHitsOf(direct_deps[dep_idx], vulns)
            /\ IF dep_idx < Len(direct_deps)
               THEN /\ dep_idx' = dep_idx + 1
                    /\ attempt' = 0
                    /\ osv_attempt' = 1
                    /\ vulns' = <<>>
                    /\ last_exc' = ""
                    /\ spc' = "query"
               ELSE /\ spc' = "report"
                    /\ UNCHANGED <<dep_idx, attempt, osv_attempt, vulns, last_exc>>
            /\ UNCHANGED <<out, status>>
    /\ UNCHANGED <<direct_deps, uncaught, queries, failures, returned>>
    /\ UNCHANGED configurator

\* main(), lines 202-209
Report ==
    /\ spc = "report"
    /\ IF critical_hits # <<>>
       THEN /\ out' = out \o <<"CRITICAL vulnerabilities detected in direct dependencies:">>
                          \o [k \in 1..Len(critical_hits) |-> " - hit"]
            /\ status' = 1
       ELSE /\ out' = Append(out, "No CRITICAL vulnerabilities detected in direct dependencies.")
            /\ status' = 0
    /\ spc' = "done"
    /\ UNCHANGED <<direct_deps, dep_idx, attempt, osv_attempt, vulns, critical_hits, last_exc,
                   uncaught, queries, failures, returned>>
    /\ UNCHANGED configurator

NextScan ==
    \/ ScanStart
    \/ Query
    \/ AfterLoop
    \/ Report

SpecScan == InitScan /\ [][NextScan]_vars

-----------------------------------------------------------------------------
(* C13: the outcome of the scan *)

ScanDone == spc = "done"

\* most urlopen calls the two nested loops make for one coordinate
QueryLimit == MainAttempts * OSV_RETRIES

\* every query of coordinate i has failed and the retries are used up
Exhausted(i) == failures[i] = QueryLimit /\ queries[i] = QueryLimit

AnyCriticalReturned == \E p \in returned : is_critical(p[2])

ReportsCritical ==
    \E k \in 1..Len(out) : out[k] = "CRITICAL vulnerabilities detected in direct dependencies:"

\* the outcome the claim describes
ClaimedOutcome ==
    /\ status \in {0, 1, 2}
    /\ status = 2 <=> \E i \in DOMAIN queries : Exhausted(i)
    /\ status = 2 =>
         /\ ~ReportsCritical
         /\ \A i, j \in DOMAIN queries : (Exhausted(i) /\ j > i) => queries[j] = 0
    /\ status # 2 =>
         /\ status = 1 <=> AnyCriticalReturned
         /\ status = 0 <=> ~AnyCriticalReturned
         /\ ReportsCritical <=> AnyCriticalReturned

BoundedQueries == \A i \in DOMAIN queries : queries[i] <= QueryLimit

\* C13 (as claimed): whatever the dependencies and the failures, no coordinate
\* is queried more than a bounded number of times; the scan returns 2 as soon
\* as the queries of one coordinate have all failed after the retries, and
\* reports no critical finding then; otherwise it returns 1 exactly when a
\* returned advisory is critical and 0 exactly when none is.
C13_ScanOutcome ==
    /\ BoundedQueries
    /\ ScanDone => ClaimedOutcome

\* the claimed outcome holds for the failures osv_query and main() catch
C13_OutcomeWhenCaught ==
    /\ BoundedQueries
    /\ (ScanDone /\ uncaught = "") => ClaimedOutcome


====
